---- MODULE Spec2Model ----
(***************************************************************************)
(* Model of the figure localization and enhancement pipeline of            *)
(* src/services/geminiService.ts (extractFigureTargets, findPageForQuery,  *)
(* renderPageAsImage, cropImage, processSingleFigure, visualizeFigure),    *)
(* and of the handlers of src/App.tsx that call it (handleSendMessage,     *)
(* handleStop, handleAskSofia, handleUpload).                              *)
(*                                                                         *)
(* Strings are sequences of one-character strings, so that the regular     *)
(* expressions of findPageForQuery are computed character by character.    *)
(* A JSON value the model returns where the code expects a string is a     *)
(* record [str, chars]: str = FALSE is a value that is not a string.       *)
(*                                                                         *)
(* Spec       : visualizeFigure with up to MaxTargets concurrent branches. *)
(* SpecFigure : one target, with every detector box and enhancer response. *)
(* SpecLocate : one call of findPageForQuery on a document.                *)
(* SpecCrop   : one call of cropImage on a page image.                     *)
(* SpecApp    : the handlers of App, with up to MaxRequests requests.      *)
(* SpecLive   : visualizeFigure awaited by a request, with the user        *)
(*              stopping or asking again, under fairness of the awaits.    *)
(* An await is one action: the code runs from one await to the next        *)
(* without interleaving. findPageForQuery only reads the document, so its  *)
(* scan is one step of its branch.                                         *)
(***************************************************************************)
EXTENDS Integers, Sequences, FiniteSets, TLC

VARIABLES
    \* ---- one call of findPageForQuery (specification SpecLocate)
    lq,         \* the identifier passed as `query`
    ldoc,       \* the document: the sequence of its pages' texts
    lfail,      \* the first pdf.js call that throws (see FailPoints)
    lpdf,       \* TRUE when window.pdfjsLib is loaded
    lpc,        \* "call" before findPageForQuery has settled, then "done"
    lres,       \* its outcome: [threw, page, read, opened]
    \* ---- one call of visualizeFigure (specifications Spec and SpecFigure)
    vquery,     \* the query visualizeFigure is called with
    paper,      \* [present, doc]: the active paper, present = FALSE for null
    pdfjsLib,   \* TRUE when window.pdfjsLib is loaded
    vpc,        \* visualizeFigure: "start", "extract", "join", "done"
    extractResp,\* what the target-extraction inference call answered
    targets,    \* the list extractFigureTargets returned
    fig,        \* fig[i]: the locals of processSingleFigure(targets[i]) and
                \* the state of the promise it returned
    doneOrder,  \* the branches in the order their promises settled
    results,    \* the list Promise.all resolved with
    calls,      \* number of target-extraction inference calls issued
    message,    \* the Message visualizeFigure resolved with
    \* ---- one call of cropImage (specification SpecCrop)
    cimage,     \* the image passed as `base64Image`
    cbox,       \* the box passed as `box`
    chow,       \* how the Image element settles (see CropOutcomes)
    cpc,        \* "call" before the promise has settled, then "done"
    cout,       \* the promise cropImage returned: [state, image]
    \* ---- the component App of src/App.tsx (specifications SpecApp, SpecLive)
    activeRequestRef, \* activeRequestRef.current: a request id, 0 for null
    messages,         \* the list of messages [role, req, kind]
    isProcessing,
    isAuthorLoading,
    authorProfile,    \* the request whose profile is shown, 0 for null
    activePaperId,    \* a paper id, 0 for null
    papers,           \* number of papers; their ids are 1..papers
    requests,         \* requests[id]: the call of handleSendMessage whose
                      \* requestId is id: [service, papers, pc], the method
                      \* it awaits and the `papers` of its closure
    upload            \* the call of handleUpload: [pc, activePaperId]

varsLocate == <<lq, ldoc, lfail, lpdf, lpc, lres>>

varsFigure == <<vquery, paper, pdfjsLib, vpc, extractResp, targets, fig,
                doneOrder, results, calls, message>>

varsCrop == <<cimage, cbox, chow, cpc, cout>>

varsApp == <<activeRequestRef, messages, isProcessing, isAuthorLoading,
             authorProfile, activePaperId, papers, requests, upload>>

vars == <<lq, ldoc, lfail, lpdf, lpc, lres,
          vquery, paper, pdfjsLib, vpc, extractResp, targets, fig,
          doneOrder, results, calls, message,
          cimage, cbox, chow, cpc, cout,
          activeRequestRef, messages, isProcessing, isAuthorLoading,
          authorProfile, activePaperId, papers, requests, upload>>

-----------------------------------------------------------------------------
(* Bounds of the model *)

\* longest document whose pages all carry arbitrary text
MaxPages == 3

\* longest list of targets the extraction call answers with
MaxTargets == 2

\* most parts in an enhancement response
MaxParts == 2

\* most requests handleSendMessage is called for
MaxRequests == 2

-----------------------------------------------------------------------------
(* Characters and the regular expressions of findPageForQuery *)

UpperCase == <<"A","B","C","D","E","F","G","H","I","J","K","L","M",
               "N","O","P","Q","R","S","T","U","V","W","X","Y","Z">>

LowerCase == <<"a","b","c","d","e","f","g","h","i","j","k","l","m",
               "n","o","p","q","r","s","t","u","v","w","x","y","z">>

Digits == {"0","1","2","3","4","5","6","7","8","9"}

\* \s of the patterns (page items are joined with ' ')
Whitespace == {" "}

\* the case folding of the patterns' `i` flag and of toLowerCase()
FoldCase ==
    [c \in {UpperCase[k] : k \in 1..26} |->
        LowerCase[CHOOSE k \in 1..26 : UpperCase[k] = c]]

Lower(c) == IF c \in DOMAIN FoldCase THEN FoldCase[c] ELSE c

\* the literal lit (lower case) matches text at position p, ignoring case
HasLit(text, p, lit) ==
    /\ p >= 1
    /\ p + Len(lit) - 1 <= Len(text)
    /\ \A k \in 1..Len(lit) : Lower(text[p + k - 1]) = lit[k]

\* \s* is greedy, and what follows it in every pattern is a digit: it ends at
\* the first position at or after p that holds no whitespace
RECURSIVE SkipWs(_, _)
SkipWs(text, p) ==
    IF p <= Len(text) /\ text[p] \in Whitespace THEN SkipWs(text, p + 1) ELSE p

\* (\d+): the position after the longest run of digits starting at p
RECURSIVE DigitsEnd(_, _)
DigitsEnd(text, p) ==
    IF p <= Len(text) /\ text[p] \in Digits THEN DigitsEnd(text, p + 1) ELSE p

LitFigure == <<"f","i","g","u","r","e">>
LitFig == <<"f","i","g">>
LitFigDot == <<"f","i","g",".">>
LitTable == <<"t","a","b","l","e">>

\* the positions after a match of (Figure|Fig\.?|Table) starting at p
QueryLabelEnds(text, p) ==
    { p + Len(lit) : lit \in { l \in {LitFigure, LitFigDot, LitFig, LitTable} :
                                 HasLit(text, p, l) } }

\* /(Figure|Fig\.?|Table)\s*(\d+)/i matches query starting at p
QueryMatchAt(query, p) ==
    \E e \in QueryLabelEnds(query, p) :
        DigitsEnd(query, SkipWs(query, e)) > SkipWs(query, e)

\* query.match(...): [found, label, number] of the leftmost match
QueryMatch(query) ==
    IF \E p \in 1..Len(query) : QueryMatchAt(query, p)
    THEN LET p == CHOOSE x \in 1..Len(query) :
                      /\ QueryMatchAt(query, x)
                      /\ \A y \in 1..(x - 1) : ~QueryMatchAt(query, y)
             e == CHOOSE x \in QueryLabelEnds(query, p) :
                      DigitsEnd(query, SkipWs(query, x)) > SkipWs(query, x)
             d == SkipWs(query, e)
         IN  [found |-> TRUE,
              label |-> SubSeq(query, p, e - 1),
              number |-> SubSeq(query, d, DigitsEnd(query, d) - 1)]
    ELSE [found |-> FALSE, label |-> <<>>, number |-> <<>>]

\* match[1].toLowerCase().startsWith('t') ? 'table' : 'figure'
LabelType(label) ==
    IF Len(label) >= 1 /\ Lower(label[1]) = "t" THEN LitTable ELSE LitFigure

\* the positions after a match of (${labelType}|fig\.?) starting at p
PatternLabelEnds(text, p, labelType) ==
    { p + Len(lit) : lit \in { l \in {labelType, LitFigDot, LitFig} :
                                 HasLit(text, p, l) } }

\* loosePattern.test(text): (${labelType}|fig\.?)\s*${number}
LooseTest(text, labelType, number) ==
    \E p \in 1..Len(text) :
        \E e \in PatternLabelEnds(text, p, labelType) :
            HasLit(text, SkipWs(text, e), number)

\* captionPattern.test(text): (${labelType}|fig\.?)\s*${number}[.:]
CaptionTest(text, labelType, number) ==
    \E p \in 1..Len(text) :
        \E e \in PatternLabelEnds(text, p, labelType) :
            LET d == SkipWs(text, e)
            IN  /\ HasLit(text, d, number)
                /\ d + Len(number) <= Len(text)
                /\ text[d + Len(number)] \in {".", ":"}

-----------------------------------------------------------------------------
(* findPageForQuery *)

\* Math.min(numPages, 30)
ScanLimit == 30

Min(a, b) == IF a <= b THEN a ELSE b

\* variant of maxScan: the whole document is scanned
maxScanWholeDocument(numPages) == numPages

\* maxScan = Math.min(numPages, 30), the last page the loop reads
maxScan(numPages) == Min(numPages, ScanLimit)

\* The failure input of findPageForQuery is a record [open, page]: open when
\* getDocument rejects, page = k >= 1 when getPage(k) or getTextContent of
\* page k rejects, page = 0 when no page read throws.

\* variant of LoopBody: the scan stops at the first loose match
LoopBodyStopAtLoose(text, i, bestPage, labelType, number) ==
    IF CaptionTest(text, labelType, number) \/ LooseTest(text, labelType, number)
    THEN [ret |-> TRUE, page |-> i]
    ELSE [ret |-> FALSE, page |-> bestPage]

\* variant of LoopBody: a caption match is recorded and the scan goes on
LoopBodyNoEarlyReturn(text, i, bestPage, labelType, number) ==
    IF CaptionTest(text, labelType, number) \/ LooseTest(text, labelType, number)
    THEN [ret |-> FALSE, page |-> i]
    ELSE [ret |-> FALSE, page |-> bestPage]

\* One iteration of the scan loop on page i, whose text has been extracted:
\* [ret, page] is `return i` on a caption match, and otherwise the new
\* bestPage (foundStrict is never assigned and stays false)
LoopBody(text, i, bestPage, labelType, number) ==
    IF CaptionTest(text, labelType, number)
    THEN [ret |-> TRUE, page |-> i]
    ELSE IF LooseTest(text, labelType, number)
         THEN [ret |-> FALSE, page |-> i]
         ELSE [ret |-> FALSE, page |-> bestPage]

\* The scan loop from page i on: [page, read] with read the pages whose text
\* extraction was started, in order. A rejected getPage or getTextContent
\* leaves the try block: the catch logs and control reaches `return 1`.
RECURSIVE ScanFrom(_, _, _, _, _, _, _)
ScanFrom(doc, fail, i, bestPage, read, labelType, number) ==
    IF i > maxScan(Len(doc))
    THEN [page |-> bestPage, read |-> read]
    ELSE IF fail.page = i
         THEN [page |-> 1, read |-> Append(read, i)]
         ELSE LET b == LoopBody(doc[i], i, bestPage, labelType, number)
              IN  IF b.ret
                  THEN [page |-> b.page, read |-> Append(read, i)]
                  ELSE ScanFrom(doc, fail, i + 1, b.page, Append(read, i),
                                labelType, number)

\* variant of findPageForQuery: the document is opened before the identifier
\* is parsed, and an identifier that does not parse is an error
findPageForQueryStrictParse(doc, fail, pdfLoaded, query) ==
    IF ~pdfLoaded
    THEN [threw |-> FALSE, page |-> 1, read |-> <<>>, opened |-> FALSE]
    ELSE IF ~query.str
    THEN [threw |-> TRUE, page |-> 0, read |-> <<>>, opened |-> FALSE]
    ELSE LET m == QueryMatch(query.chars)
         IN  IF ~m.found
             THEN [threw |-> TRUE, page |-> 0, read |-> <<>>, opened |-> TRUE]
             ELSE IF fail.open
             THEN [threw |-> FALSE, page |-> 1, read |-> <<>>, opened |-> TRUE]
             ELSE LET s == ScanFrom(doc, fail, 1, 1, <<>>,
                                    LabelType(m.label), m.number)
                  IN  [threw |-> FALSE, page |-> s.page, read |-> s.read,
                       opened |-> TRUE]

\* findPageForQuery(pdfUrl, query): [threw, page, read, opened]. query is a
\* JSON value; query.match is not a function when it is not a string, and
\* the call is outside the try block.
findPageForQuery(doc, fail, pdfLoaded, query) ==
    IF ~pdfLoaded
    THEN [threw |-> FALSE, page |-> 1, read |-> <<>>, opened |-> FALSE]
    ELSE IF ~query.str
    THEN [threw |-> TRUE, page |-> 0, read |-> <<>>, opened |-> FALSE]
    ELSE LET m == QueryMatch(query.chars)
         IN  IF ~m.found
             THEN [threw |-> FALSE, page |-> 1, read |-> <<>>, opened |-> FALSE]
             ELSE IF fail.open
             THEN [threw |-> FALSE, page |-> 1, read |-> <<>>, opened |-> TRUE]
             ELSE LET s == ScanFrom(doc, fail, 1, 1, <<>>,
                                    LabelType(m.label), m.number)
                  IN  [threw |-> FALSE, page |-> s.page, read |-> s.read,
                       opened |-> TRUE]

-----------------------------------------------------------------------------
(* Inputs of findPageForQuery *)

Str(chars) == [str |-> TRUE, chars |-> chars]
NotStr(chars) == [str |-> FALSE, chars |-> chars]

TxtBlank == <<"R","e","s","u","l","t","s">>
TxtLooseFig1 == <<"a","s"," ","F","i","g","u","r","e"," ","1"," ","s","h","o","w","s">>
TxtCaptionFig1 == <<"F","i","g","."," ","1",":"," ","L","o","s","s">>
TxtCaptionFig12 == <<"F","i","g","u","r","e"," ","1","2","."," ","M","a","p">>
TxtCaptionTable1 == <<"T","A","B","L","E"," ","1",":"," ","D","a","t","a">>

PageTexts == {TxtBlank, TxtLooseFig1, TxtCaptionFig1, TxtCaptionFig12,
              TxtCaptionTable1}

QFigure1 == <<"F","i","g","u","r","e"," ","1">>
QFig1 == <<"s","h","o","w"," ","f","i","g",".","1">>
QTable1 == <<"T","a","b","l","e"," ","1">>
QChart == <<"t","h","e"," ","c","h","a","r","t">>

Identifiers == {Str(QFigure1), Str(QFig1), Str(QTable1), Str(QChart), Str(<<>>)}

\* documents of up to MaxPages pages of arbitrary text
ShortDocs == UNION { [1..n -> PageTexts] : n \in 1..MaxPages }

\* a document of n pages: first on page 1, last on page n, nothing between
LongDoc(first, n, last) ==
    [p \in 1..n |-> IF p = 1 THEN first ELSE IF p = n THEN last ELSE TxtBlank]

\* documents that reach and pass the scan limit
LongDocs == { LongDoc(f, n, l) : f \in PageTexts, n \in {ScanLimit, ScanLimit + 1},
                                 l \in PageTexts }

Documents == ShortDocs \cup LongDocs

\* the calls of pdf.js that may throw on document doc
FailPoints(doc) ==
    { [open |-> TRUE, page |-> 0] } \cup
    { [open |-> FALSE, page |-> k] :
        k \in (0..Min(Len(doc), MaxPages)) \cup {Len(doc)} }

-----------------------------------------------------------------------------
(* Images, data URLs and result records *)

NoBox == <<0, 0, 0, 0>>

\* the source rectangle of drawImage; the canvas has its width and height
NoRect == [sx |-> 0, sy |-> 0, sw |-> 0, sh |-> 0]

\* An image is [kind, page, box, rect, part]: the raster of page `page`
\* ("page"), the rectangle `rect` that cropImage cut out of it for `box`
\* ("crop"), and with part = k >= 1 the image the enhancement model
\* generated from it and sent as its k-th part.
NoImage == [kind |-> "none", page |-> 0, box |-> NoBox, rect |-> NoRect, part |-> 0]

PageImage(pageNum) ==
    [kind |-> "page", page |-> pageNum, box |-> NoBox, rect |-> NoRect, part |-> 0]

\* The size in pixels of the raster of a page (canvas.width = viewport.width,
\* canvas.height = viewport.height at scale 2.0): odd pages are US Letter
\* upright, even pages are US Letter turned.
Viewport(pageNum) ==
    IF pageNum % 2 = 1 THEN [width |-> 1224, height |-> 1584]
    ELSE [width |-> 1584, height |-> 1224]

\* '' and `data:${mime};base64,${data}`
EmptyUrl == [mime |-> "", data |-> NoImage]
DataUrl(mime, image) == [mime |-> mime, data |-> image]

\* variant of FailureRecord: without the error field
FailureRecordNoError(target) ==
    [imageUrl |-> EmptyUrl, label |-> target, error |-> ""]

\* { imageUrl: '', label: target, error: 'Failed to process' }
FailureRecord(target) ==
    [imageUrl |-> EmptyUrl, label |-> target, error |-> "Failed to process"]

\* { imageUrl: finalImageUrl, label: target }
SuccessRecord(url, target) == [imageUrl |-> url, label |-> target, error |-> ""]

-----------------------------------------------------------------------------
(* extractFigureTargets *)

\* variant of extractFigureTargets: without the test targets.length > 0
extractFigureTargetsKeepEmpty(q, resp) ==
    IF resp.kind \in {"throw", "badjson"} THEN <<q>>
    ELSE IF resp.kind \in {"array", "emptytext"} THEN resp.arr
    ELSE <<q>>

\* The extraction call's outcome is [kind, arr]: "throw" (generateContent
\* rejects), "badjson" (JSON.parse throws), "emptytext" (response.text is
\* empty and "[]" is parsed), "notarray" (the JSON value is no array),
\* "array" (the JSON array arr).
extractFigureTargets(q, resp) ==
    IF resp.kind \in {"throw", "badjson"} THEN <<q>>
    ELSE IF resp.kind \in {"array", "emptytext"} /\ Len(resp.arr) > 0 THEN resp.arr
    ELSE <<q>>

-----------------------------------------------------------------------------
(* processSingleFigure: the detection stage *)

\* The detection call's outcome is [kind, box]: "throw" (generateContent
\* rejects), "badjson" (JSON.parse throws, or the value is null and
\* json.box_2d throws), "nobox" (box_2d missing or falsy), "notarray",
\* "wronglen" (an array of a length other than 4), "box" (the 4 numbers box).
NoJson == [kind |-> "none", box |-> NoBox]

\* json.box_2d && Array.isArray(json.box_2d) && json.box_2d.length === 4
HasBox(json) == json.kind = "box"

\* variant of Gate: the test for a small box is made on the width as well
GateSmallWidth(box) ==
    LET h == box[3] - box[1]
        w == box[4] - box[2]
    IN  IF h <= 0 \/ w <= 0 THEN "degenerate"
        ELSE IF h < 20 \/ w < 20 THEN "small"
        ELSE IF h > 950 /\ w > 950 THEN "fullpage"
        ELSE "crop"

\* variant of Gate: without the test h < 20
GateNoSmall(box) ==
    LET h == box[3] - box[1]
        w == box[4] - box[2]
    IN  IF h <= 0 \/ w <= 0 THEN "degenerate"
        ELSE IF h > 950 /\ w > 950 THEN "fullpage"
        ELSE "crop"

\* variant of Gate: without the test h > 950 && w > 950
GateNoFullPage(box) ==
    LET h == box[3] - box[1]
        w == box[4] - box[2]
    IN  IF h <= 0 \/ w <= 0 THEN "degenerate"
        ELSE IF h < 20 THEN "small"
        ELSE "crop"

\* The if-chain on h = y2 - y1 and w = x2 - x1 of [y1, x1, y2, x2]: the
\* branch taken, "crop" for the final else
Gate(box) ==
    LET h == box[3] - box[1]
        w == box[4] - box[2]
    IN  IF h <= 0 \/ w <= 0 THEN "degenerate"
        ELSE IF h < 20 THEN "small"
        ELSE IF h > 950 /\ w > 950 THEN "fullpage"
        ELSE "crop"

\* variant of SourceRect: the box is read as [xmin, ymin, xmax, ymax]
SourceRectSwapAxes(box, width, height) ==
    [sx |-> width * box[1], sy |-> height * box[2],
     sw |-> width * (box[3] - box[1]), sh |-> height * (box[4] - box[2])]

\* The rectangle drawImage copies out of an image of width x height pixels
\* for [ymin, xmin, ymax, xmax] = box: width * rX, height * rY, width * rW,
\* height * rH with rX = xmin / 1000, rY = ymin / 1000, rW = (xmax - xmin) /
\* 1000, rH = (ymax - ymin) / 1000. Lengths are in 1/1000 pixel, so that the
\* division by 1000 is exact.
SourceRect(box, width, height) ==
    [sx |-> width * box[2], sy |-> height * box[1],
     sw |-> width * (box[4] - box[2]), sh |-> height * (box[3] - box[1])]

\* variant of cropImage: without the test rW <= 0 || rH <= 0
cropImageNoSizeTest(image, box, how) ==
    IF how = "error" THEN image
    ELSE IF how = "load"
         THEN [image EXCEPT !.kind = "crop", !.box = box,
                            !.rect = SourceRect(box, Viewport(image.page).width,
                                                Viewport(image.page).height)]
    ELSE image

\* cropImage(base64Image, box) once the image has settled: how is "load"
\* (onload, with a 2d context), "noctx" (onload, getContext returns null) or
\* "error" (onerror)
cropImage(image, box, how) ==
    IF how = "error" THEN image
    ELSE IF box[4] - box[2] <= 0 \/ box[3] - box[1] <= 0 THEN image
    ELSE IF how = "load"
         THEN [image EXCEPT !.kind = "crop", !.box = box,
                            !.rect = SourceRect(box, Viewport(image.page).width,
                                                Viewport(image.page).height)]
    ELSE image

-----------------------------------------------------------------------------
(* processSingleFigure: the enhancement stage *)

\* The enhancement call's outcome is [kind, parts]: "throw", "noparts"
\* (no candidates[0].content.parts), "parts". A part is [inline, data, mime]:
\* inline when it has inlineData, data when inlineData.data is not empty,
\* mime its inlineData.mimeType ("" when absent).
NoViz == [kind |-> "none", parts |-> <<>>]

\* The loop over the parts from part k on, url being finalImageUrl so far
RECURSIVE PartsLoop(_, _, _, _)
PartsLoop(parts, k, url, input) ==
    IF k > Len(parts) THEN url
    ELSE IF parts[k].inline /\ parts[k].data
         THEN PartsLoop(parts, k + 1,
                        DataUrl(IF parts[k].mime = "" THEN "image/png"
                                ELSE parts[k].mime,
                                [input EXCEPT !.part = k]),
                        input)
         ELSE PartsLoop(parts, k + 1, url, input)

\* finalImageUrl after the enhancement try block
FinalImageUrl(cropped, viz) ==
    IF viz.kind = "parts"
    THEN PartsLoop(viz.parts, 1, DataUrl("image/jpeg", cropped), cropped)
    ELSE DataUrl("image/jpeg", cropped)

-----------------------------------------------------------------------------
(* processSingleFigure: one branch *)

\* The locals of one call and its promise: pc is the await it is suspended
\* at ("locate", "render", "detect", "crop", "enhance") or "done"; settled is
\* "pending", "fulfilled" or "rejected"; raster is "none", "ok" or "failed";
\* sent is the image handed to the enhancement call; renders, detects, crops
\* and enhances count the calls it issued.
NewBranch(target) ==
    [pc |-> "locate", target |-> target, pageNum |-> 0, raster |-> "none",
     pageImage |-> NoImage, json |-> NoJson, cropped |-> NoImage,
     sent |-> NoImage, viz |-> NoViz, finalImageUrl |-> EmptyUrl,
     settled |-> "pending", result |-> FailureRecord(target),
     renders |-> 0, detects |-> 0, crops |-> 0, enhances |-> 0]

\* variant of OuterCatch: the exception is thrown again
OuterCatchRethrow(b) ==
    [b EXCEPT !.pc = "done", !.settled = "rejected"]

\* The outer catch block: the promise is fulfilled with the failure record
OuterCatch(b) ==
    [b EXCEPT !.pc = "done", !.settled = "fulfilled",
              !.result = FailureRecord(b.target)]

\* `let finalImageUrl = ...` and the enhancement call are issued
StartEnhance(b) ==
    [b EXCEPT !.pc = "enhance", !.sent = b.cropped, !.enhances = @ + 1,
              !.finalImageUrl = DataUrl("image/jpeg", b.cropped)]

\* findPageForQuery has settled with r
AfterLocate(b, r) ==
    IF r.threw THEN OuterCatch(b)
    ELSE [b EXCEPT !.pc = "render", !.pageNum = r.page, !.renders = @ + 1]

\* variant of AfterDetect: a rejected detection call is issued a second time
AfterDetectRetry(b, json) ==
    IF json.kind = "throw" /\ b.detects < 2
    THEN [b EXCEPT !.detects = @ + 1]
    ELSE LET c == [b EXCEPT !.json = json]
         IN  IF HasBox(json) /\ Gate(json.box) = "crop"
             THEN [c EXCEPT !.pc = "crop", !.crops = @ + 1]
             ELSE StartEnhance(c)

\* renderPageAsImage has settled: ok, or it threw; then the detection call
AfterRender(b, ok) ==
    IF ~ok THEN OuterCatch([b EXCEPT !.raster = "failed"])
    ELSE [b EXCEPT !.pc = "detect", !.raster = "ok",
                   !.pageImage = PageImage(b.pageNum),
                   !.cropped = PageImage(b.pageNum),
                   !.detects = @ + 1]

\* variant of AfterDetect: the sentinel box is reported as a failure
AfterDetectSentinelFails(b, json) ==
    LET c == [b EXCEPT !.json = json]
    IN  IF HasBox(json) /\ json.box = NoBox
        THEN OuterCatch(c)
        ELSE IF HasBox(json) /\ Gate(json.box) = "crop"
        THEN [c EXCEPT !.pc = "crop", !.crops = @ + 1]
        ELSE StartEnhance(c)

\* the detection call has settled with json
AfterDetect(b, json) ==
    LET c == [b EXCEPT !.json = json]
    IN  IF HasBox(json) /\ Gate(json.box) = "crop"
        THEN [c EXCEPT !.pc = "crop", !.crops = @ + 1]
        ELSE StartEnhance(c)

\* variant of AfterCrop: without img.onerror the promise of cropImage stays
\* pending when the image does not load
AfterCropNoOnError(b, how) ==
    IF how = "error" THEN [b EXCEPT !.pc = "hung"]
    ELSE StartEnhance([b EXCEPT !.cropped = cropImage(b.pageImage, b.json.box, how)])

\* cropImage has settled
AfterCrop(b, how) ==
    StartEnhance([b EXCEPT !.cropped = cropImage(b.pageImage, b.json.box, how)])

\* variant of AfterEnhance: without the inner try block, a rejected
\* enhancement call reaches the outer catch
AfterEnhanceNoInnerTry(b, viz) ==
    IF viz.kind = "throw" THEN OuterCatch([b EXCEPT !.viz = viz])
    ELSE LET url == FinalImageUrl(b.cropped, viz)
         IN  [b EXCEPT !.pc = "done", !.viz = viz, !.finalImageUrl = url,
                       !.settled = "fulfilled",
                       !.result = SuccessRecord(url, b.target)]

\* the enhancement call has settled with viz
AfterEnhance(b, viz) ==
    LET url == FinalImageUrl(b.cropped, viz)
    IN  [b EXCEPT !.pc = "done", !.viz = viz, !.finalImageUrl = url,
                  !.settled = "fulfilled",
                  !.result = SuccessRecord(url, b.target)]

-----------------------------------------------------------------------------
(* visualizeFigure *)

Branches == 1..Len(fig)

\* variant of PromiseAll: the values in the order the promises settled
PromiseAllCompletionOrder(f, order) ==
    IF \E i \in 1..Len(f) : f[i].settled = "rejected"
    THEN [state |-> "rejected", values |-> <<>>]
    ELSE IF \A i \in 1..Len(f) : f[i].settled = "fulfilled"
    THEN [state |-> "fulfilled", values |-> [k \in 1..Len(f) |-> f[order[k]].result]]
    ELSE [state |-> "pending", values |-> <<>>]

\* Promise.all: "rejected" as soon as one promise is, "fulfilled" with the
\* values in the order of the promises once all are, "pending" otherwise
PromiseAll(f, order) ==
    IF \E i \in 1..Len(f) : f[i].settled = "rejected"
    THEN [state |-> "rejected", values |-> <<>>]
    ELSE IF \A i \in 1..Len(f) : f[i].settled = "fulfilled"
    THEN [state |-> "fulfilled", values |-> [k \in 1..Len(f) |-> f[k].result]]
    ELSE [state |-> "pending", values |-> <<>>]

\* The content of a message is the sequence of its pieces [seg, label, url]
Piece(seg, label, url) == [seg |-> seg, label |-> label, url |-> url]

NoLabel == [str |-> TRUE, chars |-> <<>>]

\* "Here is your visualization.\n\n"
Header == Piece("header", NoLabel, EmptyUrl)
\* "Do you want me to **give an analysis** of these figures or ..."
Trailer == Piece("ask", NoLabel, EmptyUrl)
\* "I could not locate or process the requested figures in this paper."
AllFailed == Piece("allfailed", NoLabel, EmptyUrl)

\* res.imageUrl is truthy
Truthy(url) == url # EmptyUrl

\* the body of the loop over the results
Entry(res) ==
    IF Truthy(res.imageUrl) THEN Piece("image", res.label, res.imageUrl)
    ELSE Piece("notice", res.label, EmptyUrl)

\* variant of Content: a failed target gets no entry
ContentSkipsFailed(rs) ==
    IF \E k \in 1..Len(rs) : Truthy(rs[k].imageUrl)
    THEN <<Header>>
         \o SelectSeq([k \in 1..Len(rs) |-> Entry(rs[k])], LAMBDA e : e.seg = "image")
         \o <<Trailer>>
    ELSE <<AllFailed>>

\* variant of Content: without the test of hasSuccess
ContentKeepNotices(rs) ==
    <<Header>> \o [k \in 1..Len(rs) |-> Entry(rs[k])] \o <<Trailer>>

\* content after the loop and the test of hasSuccess
Content(rs) ==
    IF \E k \in 1..Len(rs) : Truthy(rs[k].imageUrl)
    THEN <<Header>> \o [k \in 1..Len(rs) |-> Entry(rs[k])] \o <<Trailer>>
    ELSE <<AllFailed>>

\* the Message: type is "visualization" or "" (absent)
Message(type, content) == [type |-> type, content |-> content]

NoMessage == Message("none", <<>>)
\* "Please select a paper first."
SelectPaper == Message("", <<Piece("nopaper", NoLabel, EmptyUrl)>>)
\* "I encountered a critical error while processing the request."
CriticalError == Message("", <<Piece("critical", NoLabel, EmptyUrl)>>)

-----------------------------------------------------------------------------
(* Inputs of visualizeFigure *)

Queries == {Str(QFig1), Str(<<>>)}

\* what the extraction model may list: identifiers, and a JSON number
TargetValues == {Str(QFigure1), Str(QTable1), NotStr(<<"7">>)}

\* an identifier and a JSON number
FewTargetValues == {Str(QFigure1), NotStr(<<"7">>)}

PaperDocs == {<<TxtBlank, TxtCaptionFig1>>}

Papers == {[present |-> FALSE, doc |-> <<>>]} \cup
          {[present |-> TRUE, doc |-> d] : d \in PaperDocs}

SeqsUpTo(S, n) == UNION { [1..k -> S] : k \in 0..n }

\* the outcomes of the extraction call that list at most n of the values
ExtractOutcomes(values, n) ==
    { [kind |-> k, arr |-> <<>>] : k \in {"throw", "badjson", "emptytext", "notarray"} }
    \cup { [kind |-> "array", arr |-> a] : a \in SeqsUpTo(values, n) }

\* detector boxes on the 0..1000 scale, around every threshold of the gates
ScaleBoxes == { <<o, o, y2, x2>> : o \in {0, 10},
                                   y2 \in {0, 15, 19, 30, 900, 950, 961, 1000},
                                   x2 \in {0, 15, 19, 30, 900, 950, 961, 1000} }

\* detector boxes with a coordinate below 0 or above 1000
OffScaleBoxes == { <<-50, 10, 100, 2000>>, <<10, -5, 30, 900>>,
                   <<0, 0, 1200, 1200>>, <<500, 500, 400, 1500>> }

Boxes == ScaleBoxes \cup OffScaleBoxes

DetectOutcomes ==
    { [kind |-> k, box |-> NoBox] :
        k \in {"throw", "badjson", "nobox", "notarray", "wronglen"} }
    \cup { [kind |-> "box", box |-> b] : b \in Boxes }

\* the detection call fails, or answers with the sentinel or a good box
PlainDetectOutcomes ==
    { [kind |-> "throw", box |-> NoBox],
      [kind |-> "box", box |-> NoBox],
      [kind |-> "box", box |-> <<10, 10, 30, 900>>] }

\* the detection call fails, or answers with a good box
FewDetectOutcomes ==
    { [kind |-> "throw", box |-> NoBox],
      [kind |-> "box", box |-> <<10, 10, 30, 900>>] }

CropOutcomes == {"load", "noctx", "error"}

TextPart == [inline |-> FALSE, data |-> FALSE, mime |-> ""]
ImagePart(mime) == [inline |-> TRUE, data |-> TRUE, mime |-> mime]
EmptyImagePart == [inline |-> TRUE, data |-> FALSE, mime |-> "image/png"]

Parts == {TextPart, ImagePart("image/webp"), ImagePart(""), EmptyImagePart}

\* the outcomes of the enhancement call with at most n parts
VizOutcomes(n) ==
    { [kind |-> k, parts |-> <<>>] : k \in {"throw", "noparts"} }
    \cup { [kind |-> "parts", parts |-> ps] : ps \in SeqsUpTo(Parts, n) }

\* the enhancement call fails
FailedVizOutcomes == { [kind |-> "throw", parts |-> <<>>] }

\* the enhancement call fails, or answers with one image
PlainVizOutcomes ==
    { [kind |-> "throw", parts |-> <<>>],
      [kind |-> "parts", parts |-> <<ImagePart("image/webp")>>] }

-----------------------------------------------------------------------------
(* Actions of visualizeFigure and of its branches *)

\* visualizeFigure(query, paper) up to its first await
Start ==
    /\ vpc = "start"
    /\ IF ~paper.present
       THEN /\ message' = SelectPaper
            /\ vpc' = "done"
            /\ UNCHANGED calls
       ELSE /\ vpc' = "extract"
            /\ calls' = calls + 1
            /\ UNCHANGED message
    /\ UNCHANGED <<vquery, paper, pdfjsLib, extractResp, targets, fig,
                   doneOrder, results>>
    /\ UNCHANGED <<varsLocate, varsCrop, varsApp>>

\* extractFigureTargets settles; targets.map starts every branch, each of
\* which runs to its first await
Extract(outcomes) ==
    /\ vpc = "extract"
    /\ \E resp \in outcomes :
        /\ extractResp' = resp
        /\ targets' = extractFigureTargets(vquery, resp)
        /\ fig' = [i \in 1..Len(targets') |-> NewBranch(targets'[i])]
    /\ vpc' = "join"
    /\ UNCHANGED <<vquery, paper, pdfjsLib, doneOrder, results, calls, message>>
    /\ UNCHANGED <<varsLocate, varsCrop, varsApp>>

\* branch i moves to b; its promise is recorded when it settles
Step(i, b) ==
    /\ fig' = [fig EXCEPT ![i] = b]
    /\ doneOrder' = IF b.settled # "pending" THEN Append(doneOrder, i) ELSE doneOrder
    /\ UNCHANGED <<vquery, paper, pdfjsLib, vpc, extractResp, targets,
                   results, calls, message>>
    /\ UNCHANGED <<varsLocate, varsCrop, varsApp>>

FigLocate(i) ==
    /\ fig[i].pc = "locate"
    /\ \E f \in FailPoints(paper.doc) :
        Step(i, AfterLocate(fig[i],
                            findPageForQuery(paper.doc, f, pdfjsLib, fig[i].target)))

\* pdfjs.getDocument throws when pdf.js is not loaded
FigRender(i) ==
    /\ fig[i].pc = "render"
    /\ \E ok \in (IF pdfjsLib THEN BOOLEAN ELSE {FALSE}) :
        Step(i, AfterRender(fig[i], ok))

FigDetect(i, outcomes) ==
    /\ fig[i].pc = "detect"
    /\ \E json \in outcomes : Step(i, AfterDetect(fig[i], json))

FigCrop(i) ==
    /\ fig[i].pc = "crop"
    /\ \E how \in CropOutcomes : Step(i, AfterCrop(fig[i], how))

FigEnhance(i, outcomes) ==
    /\ fig[i].pc = "enhance"
    /\ \E viz \in outcomes : Step(i, AfterEnhance(fig[i], viz))

\* Promise.all settles and visualizeFigure resolves
Join ==
    /\ vpc = "join"
    /\ LET all == PromiseAll(fig, doneOrder)
       IN  /\ all.state # "pending"
           /\ IF all.state = "rejected"
              THEN /\ message' = CriticalError
                   /\ UNCHANGED results
              ELSE /\ results' = all.values
                   /\ message' = Message("visualization", Content(all.values))
    /\ vpc' = "done"
    /\ UNCHANGED <<vquery, paper, pdfjsLib, extractResp, targets, fig,
                   doneOrder, calls>>
    /\ UNCHANGED <<varsLocate, varsCrop, varsApp>>

-----------------------------------------------------------------------------
(* cropImage called on its own *)

\* the promise cropImage returns: it has no reject function
NoOutcome == [state |-> "pending", image |-> NoImage]
Resolved(image) == [state |-> "resolved", image |-> image]

\* img.onload fires
ImgOnLoad ==
    /\ cpc = "call"
    /\ chow \in {"load", "noctx"}
    /\ cout' = Resolved(cropImage(cimage, cbox, chow))
    /\ cpc' = "done"
    /\ UNCHANGED <<cimage, cbox, chow>>
    /\ UNCHANGED <<varsLocate, varsFigure, varsApp>>

\* img.onerror fires
ImgOnError ==
    /\ cpc = "call"
    /\ chow = "error"
    /\ cout' = Resolved(cropImage(cimage, cbox, chow))
    /\ cpc' = "done"
    /\ UNCHANGED <<cimage, cbox, chow>>
    /\ UNCHANGED <<varsLocate, varsFigure, varsApp>>

-----------------------------------------------------------------------------
(* src/App.tsx: handleSendMessage, handleStop, handleAskSofia, handleUpload *)

Modes == {"CHAT", "CITATION_ANALYSIS", "RESEARCH_GAP", "AUTHOR_INTELLIGENCE",
          "VISUALIZE"}

\* The texts, by the tests handleSendMessage makes on them: "command" passes
\* isPaperCommand or isSearchCommand (e.g. "open the paper on X"), "figure"
\* passes isVizIntent or isDirectFigure (e.g. "show figure 1"), "plain" none
Texts == {"plain", "command", "figure"}

\* usedMode after the global command routing
UsedMode(mode, text) ==
    IF text = "command" /\ mode # "CHAT" THEN "CHAT" ELSE mode

\* the method of geminiService the switch awaits
ServiceOf(usedMode, text) ==
    CASE usedMode = "RESEARCH_GAP" -> "findResearchGap"
      [] usedMode = "AUTHOR_INTELLIGENCE" -> "analyzeAuthor"
      [] usedMode = "VISUALIZE" -> "visualizeFigure"
      [] usedMode = "CITATION_ANALYSIS" -> "explainCitation"
      [] OTHER -> IF text = "figure" THEN "visualizeFigure" ELSE "sendMessage"

\* How the awaited call settles: [kind, paperId] with kind "message", "throw"
\* (the promise is rejected), or "open_paper" (a Message whose data asks to
\* open paperId). analyzeAuthor and visualizeFigure catch every exception.
Settlement(kind, paperId) == [kind |-> kind, paperId |-> paperId]

Settlements(service, ids) ==
    CASE service \in {"analyzeAuthor", "visualizeFigure"} ->
             {Settlement("message", 0)}
      [] service = "sendMessage" ->
             {Settlement("message", 0), Settlement("throw", 0)}
             \cup {Settlement("open_paper", id) : id \in ids}
      [] OTHER -> {Settlement("message", 0), Settlement("throw", 0)}

\* the ids a response may ask to open: those of the papers, of which there
\* are at most two
PaperIds == {1, 2}

\* the number of files selected in the file input of the empty viewer, which
\* is `multiple`: two files are selected
FileCounts == {2}

\* a message: its role, the request it belongs to (0 for none), and what it says
Msg(role, req, kind) == [role |-> role, req |-> req, kind |-> kind]

\* the initial state of `messages`
Hello == Msg("system", 0, "hello")

NoUpload == [pc |-> "idle", activePaperId |-> 0, files |-> 0]

\* the state of App after its first render
AppIdle ==
    /\ activeRequestRef = 0
    /\ messages = <<Hello>>
    /\ isProcessing = FALSE
    /\ isAuthorLoading = FALSE
    /\ authorProfile = 0
    /\ activePaperId = 0
    /\ papers = 0
    /\ requests = <<>>
    /\ upload = NoUpload

\* no call of cropImage
CropIdle ==
    /\ cimage = NoImage
    /\ cbox = NoBox
    /\ chow = "load"
    /\ cpc = "idle"
    /\ cout = NoOutcome

\* variant of StillActive: the request is taken to be active
StillActiveAlways(ref, requestId) == TRUE

\* activeRequestRef.current === requestId
StillActive(ref, requestId) == ref = requestId

\* handleSendMessage(text, mode) up to its await; the request id is fresh
handleSendMessage(text, mode) ==
    /\ Len(requests) < MaxRequests
    /\ LET requestId == Len(requests) + 1
           usedMode == UsedMode(mode, text)
       IN  /\ activeRequestRef' = requestId
           /\ messages' = Append(messages, Msg("user", requestId, "text"))
           /\ isProcessing' = TRUE
           /\ isAuthorLoading' = IF usedMode = "AUTHOR_INTELLIGENCE" THEN TRUE
                                 ELSE isAuthorLoading
           /\ requests' = Append(requests,
                                 [service |-> ServiceOf(usedMode, text),
                                  papers |-> papers, pc |-> "await"])
    /\ UNCHANGED <<authorProfile, activePaperId, papers, upload>>
    /\ UNCHANGED <<varsLocate, varsFigure, varsCrop>>

\* handleStop()
handleStop ==
    /\ activeRequestRef' = 0
    /\ isProcessing' = FALSE
    /\ isAuthorLoading' = FALSE
    /\ UNCHANGED <<messages, authorProfile, activePaperId, papers, requests, upload>>
    /\ UNCHANGED <<varsLocate, varsFigure, varsCrop>>

\* handleSubmit of ChatInterface: the button stops while isProcessing
handleSubmit(text, mode) ==
    IF isProcessing THEN handleStop ELSE handleSendMessage(text, mode)

\* handleAskSofia(text): cite when the text has a citation mark [n]. The
\* viewer offers it for a selection in the active paper.
handleAskSofia(cite, text) ==
    /\ activePaperId # 0
    /\ handleSendMessage(text, IF cite THEN "CITATION_ANALYSIS" ELSE "CHAT")

\* the message of the settled request: the response, or the catch block's
ResponseMsg(req, requestId, s) ==
    IF s.kind = "throw" THEN Msg("model", requestId, "Error processing request.")
    ELSE IF s.kind = "open_paper"
    THEN IF s.paperId <= req.papers THEN Msg("model", requestId, "Opened")
         ELSE Msg("model", requestId, "could not find the ID")
    ELSE Msg("model", requestId, "response")

\* The awaited call of request requestId settles with s, and handleSendMessage
\* runs from its await to the end of its finally block
Settle(requestId, s) ==
    LET req == requests[requestId]
        active == StillActive(activeRequestRef, requestId)
    IN  /\ req.pc = "await"
        /\ requests' = [requests EXCEPT ![requestId].pc = "done"]
        /\ IF req.service = "analyzeAuthor" /\ active
           THEN authorProfile' = requestId /\ isAuthorLoading' = FALSE
           ELSE UNCHANGED <<authorProfile, isAuthorLoading>>
        /\ activePaperId' = IF s.kind = "open_paper" /\ s.paperId <= req.papers
                            THEN s.paperId ELSE activePaperId
        /\ messages' = IF active
                       THEN Append(messages, ResponseMsg(req, requestId, s))
                       ELSE messages
        /\ IF active
           THEN isProcessing' = FALSE /\ activeRequestRef' = 0
           ELSE UNCHANGED <<isProcessing, activeRequestRef>>
        /\ UNCHANGED <<papers, upload>>
        /\ UNCHANGED <<varsLocate, varsFigure, varsCrop>>

\* some request in flight settles
Settles ==
    \E requestId \in 1..Len(requests) :
        \E s \in Settlements(requests[requestId].service, PaperIds) :
            Settle(requestId, s)

\* handleUpload on the selected files, up to its first await (the first
\* upload only)
handleUpload ==
    /\ upload.pc = "idle"
    /\ papers = 0
    /\ isProcessing' = TRUE
    /\ messages' = Append(messages, Msg("system", 0, "Uploading"))
    /\ \E n \in FileCounts :
           upload' = [pc |-> "await", activePaperId |-> activePaperId, files |-> n]
    /\ UNCHANGED <<activeRequestRef, isAuthorLoading, authorProfile,
                   activePaperId, papers, requests>>
    /\ UNCHANGED <<varsLocate, varsFigure, varsCrop>>

\* the awaits of handleUpload have resolved
UploadDone ==
    /\ upload.pc = "await"
    /\ papers' = papers + upload.files
    /\ activePaperId' = IF upload.activePaperId = 0 THEN papers + 1
                        ELSE activePaperId
    /\ messages' = Append(messages, Msg("system", 0, "Successfully added"))
    /\ isProcessing' = FALSE
    /\ upload' = NoUpload
    /\ UNCHANGED <<activeRequestRef, isAuthorLoading, authorProfile, requests>>
    /\ UNCHANGED <<varsLocate, varsFigure, varsCrop>>

\* fileToBase64 rejects: handleUpload ends with the exception (no upload is
\* tried after a failed one)
UploadFails ==
    /\ upload.pc = "await"
    /\ upload' = [upload EXCEPT !.pc = "failed"]
    /\ UNCHANGED <<activeRequestRef, messages, isProcessing, isAuthorLoading,
                   authorProfile, activePaperId, papers, requests>>
    /\ UNCHANGED <<varsLocate, varsFigure, varsCrop>>

-----------------------------------------------------------------------------
(* Specifications *)

NoExtract == [kind |-> "none", arr |-> <<>>]

\* no call of visualizeFigure
FigureIdle ==
    /\ vquery = Str(<<>>)
    /\ paper = [present |-> FALSE, doc |-> <<>>]
    /\ pdfjsLib = FALSE
    /\ vpc = "idle"
    /\ extractResp = NoExtract
    /\ targets = <<>>
    /\ fig = <<>>
    /\ doneOrder = <<>>
    /\ results = <<>>
    /\ calls = 0
    /\ message = NoMessage

NoResult == [threw |-> FALSE, page |-> 0, read |-> <<>>, opened |-> FALSE]

\* no call of findPageForQuery
LocateIdle ==
    /\ lq = Str(<<>>)
    /\ ldoc = <<>>
    /\ lfail = [open |-> FALSE, page |-> 0]
    /\ lpdf = FALSE
    /\ lpc = "idle"
    /\ lres = NoResult

\* SpecLocate: one call of findPageForQuery
InitLocate ==
    /\ lq \in Identifiers
    /\ ldoc \in Documents
    /\ lfail \in FailPoints(ldoc)
    /\ lpdf \in BOOLEAN
    /\ lpc = "call"
    /\ lres = NoResult
    /\ FigureIdle
    /\ CropIdle
    /\ AppIdle

Locate ==
    /\ lpc = "call"
    /\ lres' = findPageForQuery(ldoc, lfail, lpdf, lq)
    /\ lpc' = "done"
    /\ UNCHANGED <<lq, ldoc, lfail, lpdf>>
    /\ UNCHANGED <<varsFigure, varsCrop, varsApp>>

NextLocate == Locate

SpecLocate == InitLocate /\ [][NextLocate]_vars

\* visualizeFigure(query, paper) is called
FigureCalled(queries, activePapers) ==
    /\ vquery \in queries
    /\ paper \in activePapers
    /\ pdfjsLib \in BOOLEAN
    /\ vpc = "start"
    /\ extractResp = NoExtract
    /\ targets = <<>>
    /\ fig = <<>>
    /\ doneOrder = <<>>
    /\ results = <<>>
    /\ calls = 0
    /\ message = NoMessage

\* one call of visualizeFigure
Init ==
    /\ FigureCalled(Queries, Papers)
    /\ LocateIdle
    /\ CropIdle
    /\ AppIdle

\* Spec: the branches of up to MaxTargets targets run concurrently
Next ==
    \/ Start
    \/ Extract(ExtractOutcomes(FewTargetValues, MaxTargets))
    \/ \E i \in Branches : FigLocate(i)
    \/ \E i \in Branches : FigRender(i)
    \/ \E i \in Branches : FigDetect(i, PlainDetectOutcomes)
    \/ \E i \in Branches : FigCrop(i)
    \/ \E i \in Branches : FigEnhance(i, PlainVizOutcomes)
    \/ Join

Spec == Init /\ [][Next]_vars

\* SpecFigure: one target, every detector box and enhancement response
NextFigure ==
    \/ Start
    \/ Extract(ExtractOutcomes(TargetValues, 1))
    \/ \E i \in Branches : FigLocate(i)
    \/ \E i \in Branches : FigRender(i)
    \/ \E i \in Branches : FigDetect(i, DetectOutcomes)
    \/ \E i \in Branches : FigCrop(i)
    \/ \E i \in Branches : FigEnhance(i, VizOutcomes(MaxParts))
    \/ Join

SpecFigure == Init /\ [][NextFigure]_vars

\* SpecCrop: one call of cropImage on a page image
InitCrop ==
    /\ cimage \in { PageImage(p) : p \in 1..MaxPages }
    /\ cbox \in Boxes
    /\ chow \in CropOutcomes
    /\ cpc = "call"
    /\ cout = NoOutcome
    /\ LocateIdle
    /\ FigureIdle
    /\ AppIdle

NextCrop == ImgOnLoad \/ ImgOnError

SpecCrop == InitCrop /\ [][NextCrop]_vars

\* SpecApp: the handlers of App, the calls of geminiService being awaited
InitApp ==
    /\ AppIdle
    /\ LocateIdle
    /\ FigureIdle
    /\ CropIdle

NextApp ==
    \/ \E text \in Texts : \E mode \in Modes : handleSubmit(text, mode)
    \/ \E cite \in BOOLEAN : \E text \in Texts : handleAskSofia(cite, text)
    \/ Settles
    \/ handleUpload
    \/ UploadDone
    \/ UploadFails

SpecApp == InitApp /\ [][NextApp]_vars

\* App after one paper was uploaded when activePapers holds a paper, and
\* handleSendMessage("show figure 1", VISUALIZE) then ran up to its await
AppAwaitsFigure ==
    /\ papers = IF paper.present THEN 1 ELSE 0
    /\ activePaperId = papers
    /\ activeRequestRef = 1
    /\ messages = (IF paper.present
                   THEN <<Hello, Msg("system", 0, "Uploading"),
                          Msg("system", 0, "Successfully added")>>
                   ELSE <<Hello>>) \o <<Msg("user", 1, "text")>>
    /\ isProcessing = TRUE
    /\ isAuthorLoading = FALSE
    /\ authorProfile = 0
    /\ requests = <<[service |-> ServiceOf("VISUALIZE", "figure"),
                     papers |-> papers, pc |-> "await"]>>
    /\ upload = NoUpload

\* SpecLive: the call of visualizeFigure that a request awaits, while the
\* user presses stop, or selects text and asks about it, which sends a newer
\* request.
InitLive ==
    /\ FigureCalled({Str(QFig1)}, Papers)
    /\ LocateIdle
    /\ CropIdle
    /\ AppAwaitsFigure

NextLive ==
    \/ Start
    \/ Extract(ExtractOutcomes(FewTargetValues, MaxTargets))
    \/ \E i \in Branches : FigLocate(i)
    \/ \E i \in Branches : FigRender(i)
    \/ \E i \in Branches : FigDetect(i, FewDetectOutcomes)
    \/ \E i \in Branches : FigCrop(i)
    \/ \E i \in Branches : FigEnhance(i, FailedVizOutcomes)
    \/ Join
    \/ vpc # "done" /\ isProcessing /\ handleSubmit("plain", "CHAT")
    \/ vpc # "done" /\ activeRequestRef = 1 /\ handleAskSofia(FALSE, "plain")

\* Every call the pipeline awaits settles, and a continuation that can run
\* does run. FigLocate(i) is enabled exactly while branch i awaits
\* findPageForQuery and every step of it ends that await, so its weak
\* fairness is stated on the await.
AwaitsSettle ==
    /\ WF_vars(Start)
    /\ WF_vars(Extract(ExtractOutcomes(FewTargetValues, MaxTargets)))
    /\ \A i \in 1..MaxTargets :
        /\ []<>(i \in Branches => fig[i].pc # "locate")
        /\ WF_vars(/\ i \in Branches
                   /\ \/ FigRender(i)
                      \/ FigDetect(i, FewDetectOutcomes)
                      \/ FigCrop(i)
                      \/ FigEnhance(i, FailedVizOutcomes))
    /\ WF_vars(Join)

SpecLive == InitLive /\ [][NextLive]_vars /\ AwaitsSettle

-----------------------------------------------------------------------------
(* Properties of visualizeFigure (Spec) *)

\* C1: when visualizeFigure has finished on a paper, the joined result list
\* has one entry per target the extractor returned and the i-th entry
\* carries the i-th target as its label, in whatever order the branches
\* settled.
C1_JoinKeepsTargetOrder ==
    (vpc = "done" /\ paper.present) =>
        /\ Len(results) = Len(targets)
        /\ \A i \in 1..Len(targets) : results[i].label = targets[i]

\* C1 witness: two different targets, the second branch settled first, the
\* first one succeeded, and the join has been made.
C1_Witness ==
    /\ vpc = "done"
    /\ Len(targets) = 2
    /\ targets[1] # targets[2]
    /\ doneOrder = <<2, 1>>
    /\ results[1].error = ""
    /\ results[2].label = targets[2]

\* C2: no step leaves the promise of a branch rejected, a branch that
\* fails is fulfilled with the failure record of its own target,
\* visualizeFigure never takes its critical-error path, a step of one branch
\* changes nothing of its siblings, and the join is made only when every
\* branch is fulfilled, each entry being the branch's own record.
C2_FailureStaysInItsBranch ==
    [][ /\ \A i \in 1..Len(fig') :
            /\ fig'[i].settled # "rejected"
            /\ (fig'[i].settled = "fulfilled" /\ fig'[i].result.error # "")
                   => fig'[i].result = FailureRecord(targets'[i])
        /\ message' # CriticalError
        /\ \A i \in Branches : \A j \in Branches :
               (Len(fig') = Len(fig) /\ i # j /\ fig'[j] # fig[j]) => fig'[i] = fig[i]
        /\ (vpc = "join" /\ vpc' = "done") =>
               /\ \A i \in Branches : fig[i].settled = "fulfilled"
               /\ Len(results') = Len(fig)
               /\ \A i \in Branches : results'[i] = fig[i].result
      ]_vars

\* C2 witness: of two targets the first to settle failed, and the join
\* still holds the sibling's image.
C2_Witness ==
    /\ vpc = "done"
    /\ Len(targets) = 2
    /\ results[doneOrder[1]].error # ""
    /\ results[doneOrder[2]].error = ""
    /\ Truthy(results[doneOrder[2]].imageUrl)

\* C3: extractFigureTargets returns at least one target, and exactly the
\* unmodified query when the inference call throws, its text is no JSON, the
\* JSON value is no array, or the array is empty.
C3_ExtractorFallback ==
    (vpc \in {"join", "done"} /\ extractResp.kind # "none") =>
        /\ Len(targets) >= 1
        /\ (extractResp.kind \in {"throw", "badjson", "notarray", "emptytext"}
            \/ (extractResp.kind = "array" /\ Len(extractResp.arr) = 0))
               => targets = <<vquery>>

\* C3 witness: the empty query, and a model that answered with an empty array.
C3_Witness ==
    /\ vpc = "join"
    /\ vquery = Str(<<>>)
    /\ extractResp = [kind |-> "array", arr |-> <<>>]
    /\ targets = <<Str(<<>>)>>

\* C7: when every target of a finished run has a failure record the content
\* is the single all-failed sentence, with no per-target notice, and a run
\* in which some target succeeded never has that content.
C7_AllFailedIsOneMessage ==
    (vpc = "done" /\ paper.present) =>
        /\ (\A i \in Branches : fig[i].result.error # "")
               => message = Message("visualization", <<AllFailed>>)
        /\ (\E i \in Branches : fig[i].result.error = "")
               => /\ message.content # <<AllFailed>>
                  /\ \A k \in 1..Len(message.content) :
                         message.content[k] # AllFailed

\* C7 witness: two targets, both with a failure record.
C7_Witness ==
    /\ vpc = "done"
    /\ Len(targets) = 2
    /\ \A i \in Branches : fig[i].result.error # ""
    /\ message.content = <<AllFailed>>

\* C6 as claimed: a finished target has a failure record if and only if
\* renderPageAsImage failed for it.
C6_FailureIffRasterFailed ==
    \A i \in Branches :
        fig[i].pc = "done" => (fig[i].result.error # "" <=> fig[i].raster = "failed")

\* the branches for which renderPageAsImage produced the image of page p
RastersOf(p) == { i \in Branches : fig[i].raster = "ok" /\ fig[i].pageNum = p }

\* C14 as claimed: within one run at most one page image is produced for a
\* page of the paper, also when two targets are located on the same page.
C14_OneRasterPerPage ==
    \A p \in 1..Len(paper.doc) : Cardinality(RastersOf(p)) <= 1

\* C15: no stage is retried. In a run on a paper the extraction call is
\* issued exactly once, and every target issues the detection call and the
\* enhancement call at most once each, exactly once when the stage has been
\* reached, whatever the calls answered.
C15_NoRetry ==
    /\ calls <= 1
    /\ (paper.present /\ vpc \in {"extract", "join", "done"}) => calls = 1
    /\ \A i \in Branches :
        /\ fig[i].detects <= 1
        /\ fig[i].enhances <= 1
        /\ fig[i].renders <= 1
        /\ fig[i].crops <= 1
        /\ fig[i].json.kind # "none" => fig[i].detects = 1
        /\ fig[i].viz.kind # "none" => fig[i].enhances = 1

\* C15 witness: two targets whose detection and enhancement calls were all
\* rejected, in a finished run: each call was issued once.
C15_Witness ==
    /\ vpc = "done"
    /\ Len(targets) = 2
    /\ calls = 1
    /\ \A i \in Branches :
        /\ fig[i].json.kind = "throw"
        /\ fig[i].viz.kind = "throw"
        /\ fig[i].detects = 1
        /\ fig[i].enhances = 1

-----------------------------------------------------------------------------
(* Properties of one target (SpecFigure) *)

\* the gates as the specification states them
FailsGate(box) ==
    LET height == box[3] - box[1]
        width == box[4] - box[2]
    IN  \/ height <= 0 \/ width <= 0
        \/ height < 20
        \/ (height > 950 /\ width > 950)

\* the enhancement response has a part with inline image data
HasInlineImage(viz) ==
    /\ viz.kind = "parts"
    /\ \E k \in 1..Len(viz.parts) : viz.parts[k].inline /\ viz.parts[k].data

\* C4: for a detector box that fails gate 1, 2 or 3, cropImage is never
\* invoked and the image handed to the enhancement call is the unmodified
\* raster of the page.
C4_GateFailureNeverCrops ==
    \A i \in Branches :
        (fig[i].json.kind = "box" /\ FailsGate(fig[i].json.box)) =>
            /\ fig[i].pc \in {"enhance", "done"}
            /\ fig[i].crops = 0
            /\ fig[i].sent = PageImage(fig[i].pageNum)

\* C4 witness: the box [10,10,15,900] has been answered and the enhancement
\* call is in flight.
C4_Witness ==
    \E i \in Branches :
        /\ fig[i].json = [kind |-> "box", box |-> <<10, 10, 15, 900>>]
        /\ fig[i].pc = "enhance"

\* C5 as claimed: for a detector box that fails a gate, the image of the
\* target's result is the unmodified page raster.
C5_OutputIsPageRaster ==
    \A i \in Branches :
        (fig[i].pc = "done" /\ fig[i].json.kind = "box" /\ FailsGate(fig[i].json.box))
            => fig[i].result.imageUrl = DataUrl("image/jpeg", PageImage(fig[i].pageNum))

\* C5 amended: for a detector box that fails a gate, the image of the
\* target's result is the unmodified page raster when the enhancement call
\* failed or returned no inline image, and otherwise an image the enhancer
\* generated from the unmodified page raster.
C5_OutputIsPageRasterOrItsEnhancement ==
    \A i \in Branches :
        (fig[i].pc = "done" /\ fig[i].json.kind = "box" /\ FailsGate(fig[i].json.box))
            => IF HasInlineImage(fig[i].viz)
               THEN /\ fig[i].result.imageUrl.data.part >= 1
                    /\ [fig[i].result.imageUrl.data EXCEPT !.part = 0]
                           = PageImage(fig[i].pageNum)
               ELSE fig[i].result.imageUrl
                        = DataUrl("image/jpeg", PageImage(fig[i].pageNum))

\* C5 witness: the box [10,10,15,900], and a result that carries the
\* enhancer's image of the page.
C5_Witness ==
    \E i \in Branches :
        /\ fig[i].pc = "done"
        /\ fig[i].json = [kind |-> "box", box |-> <<10, 10, 15, 900>>]
        /\ fig[i].result.imageUrl.data.part >= 1
        /\ fig[i].result.imageUrl.data.kind = "page"

\* the parts of the enhancement response that carry inline image data
InlineParts(viz) ==
    { k \in 1..Len(viz.parts) : viz.parts[k].inline /\ viz.parts[k].data }

\* C11 as claimed: when the enhancement response has several parts with
\* inline image data, the image of the target's result is the first of them.
C11_FirstInlinePart ==
    \A i \in Branches :
        (fig[i].pc = "done" /\ fig[i].viz.kind = "parts"
         /\ Cardinality(InlineParts(fig[i].viz)) >= 2)
            => \A k \in InlineParts(fig[i].viz) :
                   fig[i].result.imageUrl.data.part <= k

\* C12: when the enhancement call of a target throws, or answers without a
\* part that carries inline image data, the target's result has no error and
\* its image is exactly the image handed to the enhancer: the page raster, or
\* the crop of it when the detector's box was cropped.
C12_EnhancementFailureKeepsInput ==
    \A i \in Branches :
        (fig[i].pc = "done" /\ fig[i].viz.kind # "none" /\ ~HasInlineImage(fig[i].viz))
            => /\ fig[i].result.error = ""
               /\ fig[i].settled = "fulfilled"
               /\ fig[i].result.label = fig[i].target
               /\ fig[i].result.imageUrl = DataUrl("image/jpeg", fig[i].sent)
               /\ fig[i].sent = fig[i].cropped
               /\ fig[i].sent.part = 0
               /\ fig[i].sent.page = fig[i].pageNum
               /\ fig[i].sent \in {PageImage(fig[i].pageNum),
                                    cropImage(PageImage(fig[i].pageNum),
                                              fig[i].json.box, "load")}

\* C12 witness: the box [10,10,30,900] was cropped, the enhancement call
\* threw, and the result carries the crop.
C12_Witness ==
    \E i \in Branches :
        /\ fig[i].pc = "done"
        /\ fig[i].viz.kind = "throw"
        /\ fig[i].result.error = ""
        /\ fig[i].result.imageUrl.data.kind = "crop"
        /\ fig[i].result.imageUrl.data.box = <<10, 10, 30, 900>>

\* the detector's answers without a box: box_2d missing, no array, or an
\* array of another length than 4
NoBoxAnswers == { [kind |-> k, box |-> NoBox] : k \in {"nobox", "notarray", "wronglen"} }

\* the sentinel the detector is asked to answer when it finds no figure
SentinelAnswer == [kind |-> "box", box |-> NoBox]

\* C13: the sentinel box [0,0,0,0] takes a branch to the same state as an
\* answer without a box does (the parsed answer itself apart): after either
\* the enhancement call is in flight, cropImage has not been invoked, and the
\* image handed to the enhancer is the unmodified page raster.
C13_SentinelIsNoBox ==
    \A i \in Branches :
        /\ fig[i].pc = "detect" =>
               \A json \in NoBoxAnswers :
                   [AfterDetect(fig[i], SentinelAnswer) EXCEPT !.json = NoJson]
                       = [AfterDetect(fig[i], json) EXCEPT !.json = NoJson]
        /\ fig[i].json \in NoBoxAnswers \cup {SentinelAnswer} =>
               /\ fig[i].pc \in {"enhance", "done"}
               /\ fig[i].crops = 0
               /\ fig[i].cropped = PageImage(fig[i].pageNum)
               /\ fig[i].sent = PageImage(fig[i].pageNum)
               /\ fig[i].settled = "fulfilled" => fig[i].result.error = ""

\* C13 witness: the detector answered the sentinel, and the enhancement call
\* is in flight on the page raster.
C13_Witness ==
    \E i \in Branches :
        /\ fig[i].json = SentinelAnswer
        /\ fig[i].pc = "enhance"
        /\ fig[i].crops = 0
        /\ fig[i].sent = PageImage(fig[i].pageNum)

-----------------------------------------------------------------------------
(* Properties of findPageForQuery (SpecLocate) *)

\* the label and the number parsed from the identifier
LM == QueryMatch(lq.chars)

\* the scanned prefix
Scanned == 1..Min(Len(ldoc), ScanLimit)

\* the pages of the prefix that match the strict and the loose pattern
StrictPages == { p \in Scanned : CaptionTest(ldoc[p], LabelType(LM.label), LM.number) }
LoosePages == { p \in Scanned : LooseTest(ldoc[p], LabelType(LM.label), LM.number) }

\* the call searches the document, and pages 1..upTo are read without error
Searches == lpdf /\ lq.str /\ LM.found /\ ~lfail.open
ReadsUpTo(upTo) == Searches /\ (lfail.page = 0 \/ lfail.page > upTo)

\* C8: when page p1 matches only the loose pattern and a later page p2 of
\* the scanned prefix is the first to match the strict pattern, and the
\* pages up to p2 are read, findPageForQuery returns p2.
C8_StrictBeatsEarlierLoose ==
    (lpc = "done" /\ Searches) =>
        LET strict == StrictPages
        IN  \A p2 \in strict :
                (/\ \A q \in strict : p2 <= q
                 /\ ReadsUpTo(p2)
                 /\ \E p1 \in 1..(p2 - 1) :
                        LooseTest(ldoc[p1], LabelType(LM.label), LM.number))
                    => lres.page = p2

\* C8 witness: a loose match on page 1 and the caption on the last scanned
\* page, page 30, which is returned.
C8_Witness ==
    /\ lpc = "done"
    /\ Searches /\ lfail.page = 0
    /\ 1 \in LoosePages \ StrictPages
    /\ StrictPages = {ScanLimit}
    /\ lres.page = ScanLimit

\* C9 as claimed: a scan that completes without a strict match returns the
\* lowest page that matches the loose pattern.
C9_FirstLooseMatch ==
    (lpc = "done" /\ ReadsUpTo(Len(ldoc)) /\ StrictPages = {} /\ LoosePages # {})
        => \A p \in LoosePages : lres.page <= p

\* C10 as claimed: when reading a page throws before any strict match, the
\* call returns a loose-match page recorded before the error, and page 1
\* when there is none.
C10_BestSoFarOnError ==
    (/\ lpc = "done"
     /\ Searches
     /\ lfail.page \in Scanned
     /\ \A q \in StrictPages : q > lfail.page)
        => LET before == { p \in LoosePages : p < lfail.page }
           IN  IF before # {} THEN lres.page \in before ELSE lres.page = 1

\* the pages 1..n in order
PagesUpTo(n) == [k \in 1..n |-> k]

\* C19: when a page of the scanned prefix matches the strict pattern and the
\* pages up to the lowest such page are read, findPageForQuery returns that
\* lowest page, and the pages whose text it read are exactly the pages up to
\* it: no page after it is read.
C19_FirstStrictMatchStopsScan ==
    (lpc = "done" /\ Searches) =>
        LET strict == StrictPages
        IN  \A p \in strict :
                ((\A q \in strict : p <= q) /\ ReadsUpTo(p))
                    => /\ lres.page = p
                       /\ lres.read = PagesUpTo(p)
                       /\ ~lres.threw

\* C19 witness: captions on pages 2 and 3 of a 3-page document; page 2 is
\* returned and page 3 is not read.
C19_Witness ==
    /\ lpc = "done"
    /\ Searches
    /\ Len(ldoc) = 3
    /\ StrictPages = {2, 3}
    /\ lres.page = 2
    /\ lres.read = <<1, 2>>

C20_WitnessNoPageMatches ==
    /\ lpc = "done"
    /\ lq = Str(QTable1)
    /\ ldoc = <<TxtBlank, TxtLooseFig1, TxtCaptionFig12>>
    /\ lres = [threw |-> FALSE, page |-> 1, read |-> <<1, 2, 3>>, opened |-> TRUE]

-----------------------------------------------------------------------------
(* Properties of a request that awaits visualizeFigure (SpecLive) *)

\* visualizeFigure has resolved with a Message, every target having a record
Completed ==
    /\ vpc = "done"
    /\ message # NoMessage
    /\ message.type = "visualization"
    /\ Len(fig) = Len(targets)
    /\ \A i \in Branches :
        /\ fig[i].pc = "done"
        /\ fig[i].settled = "fulfilled"
        /\ fig[i].result.label = targets[i]
    /\ results = [i \in Branches |-> fig[i].result]

\* C16: a call of visualizeFigure with a paper runs to completion when every
\* call it awaits settles: each target reaches a result record and the call
\* resolves with a Message, also from the moment on at which its request is
\* no longer the active one (stopped, or superseded by a newer request).
C16_RunsToCompletion ==
    /\ (paper.present /\ vpc = "start") ~> Completed
    /\ (paper.present /\ vpc # "done" /\ activeRequestRef # 1) ~> Completed

\* C16 witness: both targets of a run have their records and the call has
\* resolved, the request having been stopped and a newer one sent meanwhile.
C16_Witness ==
    /\ Completed
    /\ paper.present
    /\ Len(targets) = 2
    /\ activeRequestRef = 2
    /\ Len(requests) = 2
    /\ requests[1].pc = "await"

-----------------------------------------------------------------------------
(* Properties of cropImage (SpecCrop) *)

\* C18: cropImage never rejects and its promise settles with every way the
\* image element can settle: it resolves with the original image when the
\* box has no positive width or height, when the image fails to load, or
\* when no canvas context is available, and with the rectangle of the box
\* cut out of the image otherwise.
C18_CropImageAlwaysResolves ==
    /\ cout.state \in {"pending", "resolved"}
    /\ cpc = "call" => ENABLED NextCrop
    /\ cpc = "done" =>
        /\ cout.state = "resolved"
        /\ IF \/ cbox[4] - cbox[2] <= 0
              \/ cbox[3] - cbox[1] <= 0
              \/ chow = "error"
              \/ chow = "noctx"
           THEN cout.image = cimage
           ELSE /\ cout.image.kind = "crop"
                /\ cout.image.box = cbox
                /\ cout.image.page = cimage.page

\* C18 witness: the box [10,10,0,900] of negative height on an image that
\* loads with a context: the original image is the result.
C18_Witness ==
    /\ cpc = "done"
    /\ cbox = <<10, 10, 0, 900>>
    /\ chow = "load"
    /\ cout = Resolved(cimage)

-----------------------------------------------------------------------------
(* Properties of App (SpecApp) *)

\* the model messages of request requestId in a list of messages
ModelMessagesOf(msgs, requestId) ==
    { k \in 1..Len(msgs) : msgs[k].role = "model" /\ msgs[k].req = requestId }

\* C17: the response or error message of a request is appended only in the
\* step in which the request settles, and only if activeRequestRef is that
\* request at that step. A request that was stopped or superseded while it
\* awaited its call never has a model message, and no request has two.
C17_StaleResultsAreDiscarded ==
    /\ [](\A id \in 1..Len(requests) :
            /\ Cardinality(ModelMessagesOf(messages, id)) <= 1
            /\ requests[id].pc = "await" => ModelMessagesOf(messages, id) = {})
    /\ [][ \A id \in 1..Len(requests) :
             /\ ModelMessagesOf(messages', id) # ModelMessagesOf(messages, id)
                    => /\ requests[id].pc = "await"
                       /\ requests'[id].pc = "done"
                       /\ activeRequestRef = id
             /\ (requests[id].pc = "await" /\ activeRequestRef # id)
                    => ModelMessagesOf(messages', id) = {}
         ]_vars

\* C17 witness: the first request was superseded by the second and has
\* settled without a model message; the second one has its response.
C17_Witness ==
    /\ Len(requests) = 2
    /\ requests[1].pc = "done"
    /\ requests[2].pc = "done"
    /\ ModelMessagesOf(messages, 1) = {}
    /\ ModelMessagesOf(messages, 2) # {}
    /\ isProcessing = FALSE

-----------------------------------------------------------------------------
(* Further properties of findPageForQuery (SpecLocate) *)

\* C21: a search reads the pages 1, 2, ... in increasing order and never a
\* page after min(numPages, 30); the page it returns is 1 or a page of that
\* prefix, so a caption on page 31 is never returned.
C21_ScanStaysInPrefix ==
    lpc = "done" =>
        /\ ~lres.threw
        /\ \E n \in 0..Min(Len(ldoc), ScanLimit) : lres.read = PagesUpTo(n)
        /\ lres.page = 1 \/ lres.page \in Scanned
        /\ lres.page <= ScanLimit

\* C21 witness: Figure 1 on a 31-page document whose only caption is on page
\* 31: pages 1..30 are read and page 31 is not returned.
C21_Witness ==
    /\ lpc = "done"
    /\ Searches /\ lfail.page = 0
    /\ Len(ldoc) = ScanLimit + 1
    /\ CaptionTest(ldoc[ScanLimit + 1], LabelType(LM.label), LM.number)
    /\ StrictPages = {}
    /\ lres.read = PagesUpTo(ScanLimit)
    /\ lres.page # ScanLimit + 1

-----------------------------------------------------------------------------
(* Further properties of one target (SpecFigure) *)

\* a valid box: four coordinates on the 0..1000 scale, yMax > yMin and
\* xMax > xMin
ValidBox(box) ==
    /\ \A k \in 1..4 : box[k] \in 0..1000
    /\ box[3] > box[1]
    /\ box[4] > box[2]

\* C22 as claimed: cropImage is only invoked with a valid box, whatever
\* length-4 array the detector answers.
C22_CropOnlyValidBox ==
    \A i \in Branches :
        fig[i].crops > 0 => (fig[i].json.kind = "box" /\ ValidBox(fig[i].json.box))

\* C23: both stages read the box as [yMin, xMin, yMax, xMax]. When a box is
\* cropped out of a W x H page image, the rectangle copied has
\* left = xMin*W/1000, top = yMin*H/1000, width = (xMax-xMin)*W/1000 and
\* height = (yMax-yMin)*H/1000 (lengths in 1/1000 pixel), and the height and
\* width that passed the gates are yMax-yMin and xMax-xMin: the height is at
\* least 20, the width is positive, and not both exceed 950.
C23_SameAxisOrder ==
    \A i \in Branches :
        fig[i].cropped.kind = "crop" =>
            LET yMin == fig[i].json.box[1]
                xMin == fig[i].json.box[2]
                yMax == fig[i].json.box[3]
                xMax == fig[i].json.box[4]
                W == Viewport(fig[i].pageNum).width
                H == Viewport(fig[i].pageNum).height
                rect == fig[i].cropped.rect
            IN  /\ rect.sx = xMin * W
                /\ rect.sy = yMin * H
                /\ rect.sw = (xMax - xMin) * W
                /\ rect.sh = (yMax - yMin) * H
                /\ yMax - yMin >= 20
                /\ xMax - xMin > 0
                /\ ~(yMax - yMin > 950 /\ xMax - xMin > 950)

\* C23 witness: the box [10,10,30,900] has been cut out of page 1 (1224 x
\* 1584 pixels): 12.24 pixels from the left, 15.84 from the top, 1089.36
\* wide and 31.68 high.
C23_Witness ==
    \E i \in Branches :
        /\ fig[i].pc \in {"enhance", "done"}
        /\ fig[i].pageNum = 1
        /\ fig[i].json = [kind |-> "box", box |-> <<10, 10, 30, 900>>]
        /\ fig[i].cropped.kind = "crop"
        /\ fig[i].cropped.rect = [sx |-> 12240, sy |-> 15840, sw |-> 1089360, sh |-> 31680]

C24_WitnessOneAxis ==
    \E i \in Branches :
        /\ fig[i].json = [kind |-> "box", box |-> <<0, 0, 1000, 900>>]
        /\ fig[i].crops = 1
        /\ fig[i].cropped.kind = "crop"

-----------------------------------------------------------------------------
(* Further properties of visualizeFigure (Spec) *)

\* C25: when at least one target of a finished run produced an image, the
\* content is the header, then one entry per target in target order, an
\* image entry with the target's label and image for a successful target and
\* a "Could not visualize <label>" notice for a failed one, then the closing
\* question; the all-failed sentence is not part of it.
C25_PartialFailureContent ==
    (/\ vpc = "done"
     /\ paper.present
     /\ \E i \in Branches : fig[i].result.error = "")
        => /\ message.type = "visualization"
           /\ Len(message.content) = Len(targets) + 2
           /\ message.content[1] = Header
           /\ message.content[Len(targets) + 2] = Trailer
           /\ \A k \in 1..Len(targets) :
                  message.content[k + 1] =
                      IF fig[k].result.error = ""
                      THEN Piece("image", targets[k], fig[k].result.imageUrl)
                      ELSE Piece("notice", targets[k], EmptyUrl)
           /\ \A k \in 1..Len(message.content) : message.content[k] # AllFailed

\* C25 witness: two targets, the first failed and the second has an image:
\* a notice, then an image entry.
C25_Witness ==
    /\ vpc = "done"
    /\ Len(targets) = 2
    /\ fig[1].result.error # ""
    /\ fig[2].result.error = ""
    /\ message.content = <<Header,
                           Piece("notice", targets[1], EmptyUrl),
                           Piece("image", targets[2], fig[2].result.imageUrl),
                           Trailer>>

-----------------------------------------------------------------------------
(* Properties of the per-target result (SpecFigure) *)

\* C26: the result of every settled target has an error exactly when its
\* imageUrl is empty, and a result without error carries a data URL with a
\* media type and an image; so the test of visualizeFigure (imageUrl is
\* truthy) takes a result for failed exactly when it is a failure record.
C26_ErrorIffEmptyUrl ==
    /\ \A i \in Branches :
           fig[i].settled = "fulfilled" =>
               LET res == fig[i].result
               IN  /\ res.error # "" <=> res.imageUrl = EmptyUrl
                   /\ res.error = "" =>
                          /\ res.imageUrl.mime # ""
                          /\ res.imageUrl.data.kind \in {"page", "crop"}
                   /\ ~Truthy(res.imageUrl) <=> res = FailureRecord(fig[i].target)
    /\ vpc = "done" /\ message.type = "visualization" =>
           \A k \in 1..Len(results) :
               Entry(results[k]).seg = "notice" <=> results[k].error # ""

\* C26 witness: the enhancer answers with a single inline part without data,
\* and the result carries the image/jpeg URL of the cropped image, no error.
C26_Witness ==
    \E i \in Branches :
        /\ fig[i].settled = "fulfilled"
        /\ fig[i].viz = [kind |-> "parts", parts |-> <<EmptyImagePart>>]
        /\ fig[i].result.error = ""
        /\ fig[i].result.imageUrl = DataUrl("image/jpeg", fig[i].cropped)

\* C26, second case: the page failed to render, and the result is the
\* failure record with the empty imageUrl.
C26_WitnessFailure ==
    \E i \in Branches :
        /\ fig[i].settled = "fulfilled"
        /\ fig[i].raster = "failed"
        /\ fig[i].result.error # ""
        /\ fig[i].result.imageUrl = EmptyUrl

-----------------------------------------------------------------------------
(* Further properties of App (SpecApp) *)

\* the state of App other than the bookkeeping of the requests in flight
AppState ==
    <<activeRequestRef, messages, isProcessing, isAuthorLoading, authorProfile,
      activePaperId, papers>>

\* C27 as claimed: the step in which a request settles that is no longer
\* active, because a newer request superseded it or handleStop cancelled it,
\* changes no state of App; in particular it leaves the active paper as it is.
C27_StaleResponseChangesNothing ==
    [][\A requestId \in 1..Len(requests) :
          (/\ requests[requestId].pc = "await"
           /\ requests'[requestId].pc = "done"
           /\ activeRequestRef # requestId)
              => UNCHANGED AppState]_vars

\* C28 as claimed: isProcessing is true whenever a request is active.
C28_ActiveRequestIsProcessing ==
    activeRequestRef # 0 => isProcessing

\* C29 as claimed: when no request is outstanding, isAuthorLoading is false.
C29_AuthorLoadingEnds ==
    (\A requestId \in 1..Len(requests) : requests[requestId].pc = "done")
        => ~isAuthorLoading

-----------------------------------------------------------------------------
(* Exactness of the page findPageForQuery selects (SpecLocate) *)

\* the labels of a kind: Figure, Fig. and Fig for a figure, Table for a table
KindLabels(labelType) ==
    IF labelType = LitTable THEN {LitTable} ELSE {LitFigure, LitFigDot, LitFig}

\* text mentions a label of the kind followed by exactly the number: the
\* number is not the beginning of a longer number
ExactMention(text, labelType, number) ==
    \E p \in 1..Len(text) :
        \E lit \in { l \in KindLabels(labelType) : HasLit(text, p, l) } :
            LET d == SkipWs(text, p + Len(lit))
            IN  /\ HasLit(text, d, number)
                /\ DigitsEnd(text, d) = d + Len(number)

\* C30 as claimed: when no page read fails and some page of the scanned
\* prefix matches the strict or the loose pattern, the page that
\* findPageForQuery selects mentions a label of the identifier's kind with
\* exactly the identifier's number.
C30_SelectedPageMentionsExactLabel ==
    (/\ lpc = "done"
     /\ Searches
     /\ lfail.page = 0
     /\ StrictPages \cup LoosePages # {})
        => ExactMention(ldoc[lres.page], LabelType(LM.label), LM.number)

====
